---- MODULE Spec2Model ----
(***************************************************************************)
(* A model of the segment assembly engine of short-maker-ai-backend:       *)
(*   generate_karaoke_ass_file   src/app/utils.py                          *)
(*   cut_and_merge               src/app/services/processing.py            *)
(* and of the job chains that lead to it:                                  *)
(*   start_download              src/app/main.py                           *)
(*   download_subtitle, download_video   src/app/services/downloads.py     *)
(*   generate_short_subtitles    src/app/services/ai.py                    *)
(*   process_downloaded_video    src/app/services/processing.py            *)
(*                                                                         *)
(* SpecCaption and SpecMerge follow one call of cut_and_merge step by      *)
(* step; SpecChain follows the jobs of several requests, each job run to   *)
(* its end by the one worker.                                              *)
(*                                                                         *)
(* Time.  Every time of the program is a Python float of seconds.  The     *)
(* model keeps times as integers of milliseconds and computes with them    *)
(* exactly; the transition arithmetic of the merge, which divides by 2.1,  *)
(* is carried out in ticks of 1/21 ms so that it stays exact as well.      *)
(* The rounding of IEEE doubles is not modelled.                           *)
(*                                                                         *)
(* Dicts.  A segment and a word are Python dicts: functions whose DOMAIN   *)
(* is the set of keys the dict carries, read with Get as dict.get reads.   *)
(***************************************************************************)
EXTENDS Integers, Sequences, FiniteSets, TLC

(***************************************************************************)
(* Bounds of the model.                                                    *)
(***************************************************************************)
MaxSegs == 3          \* segments of a merge input
MaxCapSegs == 2       \* segments of a caption input
MaxWords == 4         \* words of a segment whose words are drawn freely
MaxEvenWords == 7     \* words of a segment whose words are evenly spaced
MaxUuids == 2         \* session ids uuid4 draws from
MaxChains == 2        \* job chains, one per request
MaxLoadSegs == 2      \* segments of a .short.json file

(***************************************************************************)
(* Program constants.                                                      *)
(***************************************************************************)
window_size == 3            \* utils.py:184
TransTargetMs == 750        \* processing.py:84   0.75 s
TicksPerMs == 21            \* processing.py:84   x / 2.1 = 10 x / 21

(***************************************************************************)
(* Python helpers.                                                         *)
(***************************************************************************)
Min2(a, b) == IF a <= b THEN a ELSE b

\* dict.get(key, default)
Get(d, key, default) == IF key \in DOMAIN d THEN d[key] ELSE default

\* int(num / den) for den > 0: Python's int() truncates toward zero
IntTrunc(num, den) == IF num >= 0 THEN num \div den ELSE -((-num) \div den)

RECURSIVE SeqMin(_)
\* min(list) of a non-empty list
SeqMin(s) == IF Len(s) = 1 THEN s[1] ELSE Min2(s[1], SeqMin(Tail(s)))

RECURSIVE Flatten(_)
Flatten(ss) == IF ss = <<>> THEN <<>> ELSE ss[1] \o Flatten(Tail(ss))

(***************************************************************************)
(* generate_karaoke_ass_file, utils.py:131-227.                            *)
(*                                                                         *)
(* A cue is one Dialogue line: [start, end, text].  start and end are the  *)
(* H:MM:SS.CS stamps format_time writes; text is the sequence of the       *)
(* pieces the code appends: a karaoke piece {\k<cs>}<word>, a space, or    *)
(* one character of the plain text.                                        *)
(***************************************************************************)

\* format_time(seconds), utils.py:163-169, on milliseconds
format_time(ms) ==
    [h  |-> ms \div 3600000,
     m  |-> (ms % 3600000) \div 60000,
     s  |-> (ms % 60000) \div 1000,
     cs |-> (ms % 1000) \div 10]

KPiece(cs, word) == [kind |-> "k", cs |-> cs, word |-> word]
SpPiece == [kind |-> "sp", cs |-> 0, word |-> " "]
ChPiece(c) == [kind |-> "ch", cs |-> 0, word |-> c]

\* text.replace('\n', ' '), utils.py:177, one piece per character
PlainText(text) ==
    [n \in 1..Len(text) |-> ChPiece(IF text[n] = "\n" THEN " " ELSE text[n])]

\* the fallback cue of a segment without word timing, utils.py:175-178
FallbackCue(clip) ==
    [start |-> format_time(clip["start_sec"]),
     end   |-> format_time(clip["end_sec"]),
     text  |-> PlainText(Get(clip, "text", <<>>))]

\* a fallback taken only when the segment has no words key
NoWordsKeyOnly(clip) == "words" \notin DOMAIN clip

\* utils.py:173
NoWords(clip) == "words" \notin DOMAIN clip \/ clip["words"] = <<>>

\* utils.py:189   words[i:i+window_size], i counted from 1
WindowWords(words, i) ==
    SubSeq(words, i, Min2(i + window_size - 1, Len(words)))

\* a window start read under the data model's field name
WindowStartSec(window_words, clip) ==
    Get(window_words[1], "start_sec", clip["start_sec"])

\* utils.py:195
WindowStart(window_words, clip) ==
    Get(window_words[1], "start", clip["start_sec"])

\* utils.py:196
WindowEnd(window_words, clip) ==
    Get(window_words[Len(window_words)], "end", clip["end_sec"])

\* a duration rounded downwards, as math.floor would
DurationCsFloor(word_start, word_end) ==
    ((word_end - word_start) * 100) \div 1000

\* utils.py:206   int((word_end - word_start) * 100), on milliseconds
DurationCs(word_start, word_end) ==
    IntTrunc((word_end - word_start) * 100, 1000)

\* utils.py:200-213
KaraokeText(window_words, window_start, window_end) ==
    Flatten([j \in 1..Len(window_words) |->
        LET word_data == window_words[j]
            word == Get(word_data, "word", "")
            word_start == Get(word_data, "start", window_start)
            word_end == Get(word_data, "end", window_end)
            duration_cs == DurationCs(word_start, word_end)
        IN  <<KPiece(duration_cs, word)>>
            \o (IF j < Len(window_words) THEN <<SpPiece>> ELSE <<>>)])

\* utils.py:194-218, the cue of one window
WindowCue(window_words, clip) ==
    LET window_start == WindowStart(window_words, clip)
        window_end == WindowEnd(window_words, clip)
    IN  [start |-> format_time(window_start),
         end   |-> format_time(window_end),
         text  |-> KaraokeText(window_words, window_start, window_end)]

\* a window that slides by less than its size
NextWindowSliding(i) == i + window_size - 1

\* utils.py:221
NextWindow(i) == i + window_size

RECURSIVE WindowCues(_, _, _)
\* utils.py:186-221, the while loop from index i on
WindowCues(words, clip, i) ==
    IF i > Len(words) THEN <<>>
    ELSE <<WindowCue(WindowWords(words, i), clip)>>
         \o WindowCues(words, clip, NextWindow(i))

\* utils.py:172-221, the cues of one segment
ClipCues(clip) ==
    IF NoWords(clip) THEN <<FallbackCue(clip)>>
    ELSE WindowCues(clip["words"], clip, 1)

\* utils.py:172-225, the [Events] lines of the file written
generate_karaoke_ass_file(ts) ==
    Flatten([n \in 1..Len(ts) |-> ClipCues(ts[n])])

(***************************************************************************)
(* The merge stage of cut_and_merge, processing.py:68-133.                 *)
(*                                                                         *)
(* A label of the filter graph is [kind, n, s]: the raw stream "<n>:v" or  *)
(* "<n>:a" of input n (counted from 0), the intermediate "v<n>" or "a<n>", *)
(* or the final "outv" / "outa".  filter_complex is the sequence of the    *)
(* stages the loop appends, a video stage and then an audio stage per      *)
(* iteration.                                                              *)
(***************************************************************************)
Raw(n, s) == [kind |-> "raw", n |-> n, s |-> s]
Mid(n, s) == [kind |-> "mid", n |-> n, s |-> s]
Out(s) == [kind |-> "out", n |-> 0, s |-> s]

Ticks(ms) == ms * TicksPerMs

\* a transition as long as half of the shortest clip
TransDurHalf(durs) ==
    Min2(Ticks(TransTargetMs), Ticks(SeqMin(durs)) \div 2)

\* processing.py:82-84   min(0.75, min_dur / 2.1), in ticks
TransDur(durs) ==
    Min2(Ticks(TransTargetMs), (Ticks(SeqMin(durs)) * 10) \div 21)

\* a first transition that starts at the end of clip 1
InitialOffsetFull(durs, trans_dur) == Ticks(durs[1])

\* processing.py:95
InitialOffset(durs, trans_dur) == Ticks(durs[1]) - trans_dur

\* an offset that forgets the overlap already consumed
AdvanceOffsetDrift(current_offset, durs, i, trans_dur) ==
    current_offset + Ticks(durs[i + 1])

\* processing.py:111   durations[i], the list counted from 0
AdvanceOffset(current_offset, durs, i, trans_dur) ==
    current_offset + (Ticks(durs[i + 1]) - trans_dur)

\* every stage writing the final label
OutLabelFinal(i, n, s) == Out(s)

\* processing.py:100-101
OutLabel(i, n, s) == IF i < n - 1 THEN Mid(i, s) ELSE Out(s)

\* a stage that crossfades two raw clips
XfadeStageRawPair(prev_v, next_v, trans_dur, current_offset, out_v) ==
    [f |-> "xfade", in1 |-> Raw(next_v.n - 1, "v"), in2 |-> next_v,
     duration |-> trans_dur, offset |-> current_offset, out |-> out_v]

\* processing.py:104
XfadeStage(prev_v, next_v, trans_dur, current_offset, out_v) ==
    [f |-> "xfade", in1 |-> prev_v, in2 |-> next_v,
     duration |-> trans_dur, offset |-> current_offset, out |-> out_v]

\* processing.py:107
AcrossfadeStage(prev_a, next_a, trans_dur, out_a) ==
    [f |-> "acrossfade", in1 |-> prev_a, in2 |-> next_a,
     duration |-> trans_dur, out |-> out_a]

RECURSIVE MergeLoop(_, _, _, _, _, _)
\* processing.py:97-111, the iterations i .. n-1 of the loop
MergeLoop(i, prev_v, prev_a, current_offset, durs, trans_dur) ==
    LET n == Len(durs)
        out_v == OutLabel(i, n, "v")
        out_a == OutLabel(i, n, "a")
    IN  IF i > n - 1 THEN <<>>
        ELSE <<XfadeStage(prev_v, Raw(i, "v"), trans_dur, current_offset, out_v),
               AcrossfadeStage(prev_a, Raw(i, "a"), trans_dur, out_a)>>
             \o MergeLoop(i + 1, out_v, out_a,
                          AdvanceOffset(current_offset, durs, i, trans_dur),
                          durs, trans_dur)

\* processing.py:86-114
FilterComplex(durs) ==
    LET trans_dur == TransDur(durs)
    IN  MergeLoop(1, Raw(0, "v"), Raw(0, "a"),
                  InitialOffset(durs, trans_dur), durs, trans_dur)

\* processing.py:68   work_dir / output_name: an absolute name replaces work_dir
OutputPath(name) ==
    IF name.absolute THEN [dir |-> "/", name |-> name.name]
    ELSE [dir |-> "work_dir", name |-> name.name]

\* processing.py:52-66
ExtractRequest(input, ts, i) ==
    [op |-> "extract", input |-> input, ss |-> ts["start_sec"], to |-> ts["end_sec"],
     ass |-> "work_dir/subtitles.ass", out |-> i]

\* processing.py:73-78
CopyRequest(names, output_path) ==
    [op |-> "copy", input |-> names[1], codec |-> "copy", out |-> output_path]

\* a merge request that names the clips last to first
MergeRequestReversed(names, durs, output_path) ==
    [op |-> "merge",
     inputs |-> [k \in 1..Len(names) |-> names[Len(names) + 1 - k]],
     filter_complex |-> FilterComplex(durs),
     maps |-> <<Out("v"), Out("a")>>, cwd |-> "clips_dir", out |-> output_path]

\* processing.py:116-133
MergeRequest(names, durs, output_path) ==
    [op |-> "merge", inputs |-> names, filter_complex |-> FilterComplex(durs),
     maps |-> <<Out("v"), Out("a")>>, cwd |-> "clips_dir", out |-> output_path]

(***************************************************************************)
(* The state of one call of cut_and_merge.                                 *)
(***************************************************************************)
VARIABLES
    input_exists,     \* os.path.exists(input_video)
    timestamps,       \* the segment list passed in
    ts_is_list,       \* isinstance(timestamps, list)
    output_name,      \* [name, absolute]
    pc,               \* Idle, Extracting, Merging, Done, Failed
    work_dir,         \* TRUE once the session directory is made
    ass,              \* the cues of work_dir/subtitles.ass
    clip_names,       \* clip i is named by i
    durations,        \* milliseconds
    requests,         \* the encoder requests issued, in order
    result,           \* pending, none (returned None), raised, path
    exits,            \* the exit code of the encoder, request by request
    used_ids,         \* the session ids of the calls made before this one
    session_id,       \* str(uuid.uuid4()), 0 before it is drawn
    out_file,         \* the file at output_path: absent, partial, complete
    pdv_result,       \* what process_downloaded_video returns: pending, none, path
    data,             \* the content of the .short.json file: [shape, value, is_list]
    loaded            \* TRUE once timestamps is bound: the file is read, or
                      \* cut_and_merge is called directly

(***************************************************************************)
(* The state of the job chains: the scheduler's queue, the jobs of each    *)
(* chain and the downloads directory all chains share.                     *)
(***************************************************************************)
VARIABLES
    jobs,             \* jobs[c][s]: [status, output] of stage s of chain c
    queue,            \* the jobs ready to run, first in first out
    downloads,        \* the files of downloads/, least recently modified first
    answer,           \* answer[c]: what the selector answered chain c
    picked,           \* picked[c]: the files the processing stage of c read
    result_path,      \* result_path[c]: the path process_downloaded_video returned
    sent              \* sent[c]: the file sent to the chat of chain c

call == <<input_exists, timestamps, ts_is_list, output_name, pc, work_dir, ass,
          clip_names, durations, requests, result, exits, used_ids, session_id,
          out_file, pdv_result, data, loaded>>

chain == <<jobs, queue, downloads, answer, picked, result_path, sent>>

vars == <<call, chain>>

\* what lies outside cut_and_merge's own frame
outer == <<used_ids, pdv_result>>

inputs == <<input_exists, timestamps, ts_is_list, output_name, data, loaded>>

(***************************************************************************)
(* The inputs of cut_and_merge that the two specifications draw from.      *)
(***************************************************************************)
WordNames == <<"w1", "w2", "w3", "w4", "w5", "w6", "w7", "w8", "w9", "w10">>

\* the shapes of a word dict: as the selector prompt asks for it
\* (ai.py:104,114), as the data model names its fields, and with no timing
PromptWord(j, a, b) == [word |-> WordNames[j], start |-> a, end |-> b]
ModelWord(j, a, b) == [word |-> WordNames[j], start_sec |-> a, end_sec |-> b]
BareWord(j) == [word |-> WordNames[j]]

\* [10.333, 10.866] and the same span with its end before its start
WordSpans == {<<10333, 10866>>, <<10866, 10333>>}

FreeWords(j) ==
    {PromptWord(j, sp[1], sp[2]) : sp \in WordSpans}
    \cup {ModelWord(j, sp[1], sp[2]) : sp \in WordSpans}
    \cup {BareWord(j)}

RECURSIVE FreeWordListsOf(_)
\* every list of k words, word j drawn from FreeWords(j)
FreeWordListsOf(k) ==
    IF k = 0 THEN {<<>>}
    ELSE {Append(ws, w) : ws \in FreeWordListsOf(k - 1), w \in FreeWords(k)}

FreeWordLists == UNION {FreeWordListsOf(k) : k \in 1..MaxWords}

\* k words evenly spaced over [a, b], shaped as the prompt asks
EvenWords(a, b, k) ==
    [j \in 1..k |-> PromptWord(j, a + ((j - 1) * (b - a)) \div k,
                                  a + (j * (b - a)) \div k)]

Seg(a, b, text) == [start_sec |-> a, end_sec |-> b, text |-> text]
SegNoText(a, b, words) == [start_sec |-> a, end_sec |-> b, words |-> words]
SegWords(a, b, text, words) ==
    [start_sec |-> a, end_sec |-> b, text |-> text, words |-> words]

Texts == {<<"h", "i">>, <<"h", "\n", "i">>}

CapSpans == {<<10000, 16000>>, <<20000, 23000>>}

\* a segment of a caption input: without words, with an empty word list,
\* or with 1..MaxEvenWords evenly spaced words
CapSegs ==
    UNION {{Seg(sp[1], sp[2], t) : t \in Texts}
           \cup {SegNoText(sp[1], sp[2], <<>>)}
           \cup {SegWords(sp[1], sp[2], <<"h", "i">>, <<>>)}
           \cup {SegWords(sp[1], sp[2], <<"h", "i">>, EvenWords(sp[1], sp[2], k)) :
                     k \in 1..MaxEvenWords}
           : sp \in CapSpans}

CaptionInputs ==
    {<<SegWords(10000, 16000, <<"h", "i">>, ws)>> : ws \in FreeWordLists}
    \cup UNION {[1..n -> CapSegs] : n \in 0..MaxCapSegs}

\* durations 5 s, 6 s, 4 s, 1 s, 0 s and -1 s
MergeSpans == {<<0, 5000>>, <<5000, 11000>>, <<11000, 15000>>,
               <<1000, 2000>>, <<5000, 5000>>, <<6000, 5000>>}

MergeSegs == {Seg(sp[1], sp[2], <<"h", "i">>) : sp \in MergeSpans}

MergeInputs == UNION {[1..n -> MergeSegs] : n \in 0..MaxSegs}

\* the content of a .short.json file: an array of segments, an object with
\* the key timestamps, any other JSON value, or text that is not JSON.
\* What lies under the key timestamps need not be a list: is_list = FALSE
\* stands for a value that is not a list and is truthy.
Json(shape, value, is_list) == [shape |-> shape, value |-> value, is_list |-> is_list]

\* no file is read: cut_and_merge is called directly
NoJson == Json("none", <<>>, TRUE)

LoadSegs == {Seg(0, 5000, <<"h", "i">>), Seg(5000, 11000, <<"h", "i">>)}

LoadInputs == UNION {[1..n -> LoadSegs] : n \in 0..MaxLoadSegs}

JsonValues ==
    {Json(shape, ts, TRUE) : shape \in {"list", "wrapped"}, ts \in LoadInputs}
    \cup {Json("wrapped", <<>>, FALSE), Json("other", <<>>, TRUE),
          Json("invalid", <<>>, TRUE)}

\* the default output_name and the absolute one process_downloaded_video passes
OutputNames == {[name |-> "final_output.mp4", absolute |-> FALSE],
                [name |-> "video_processed.mp4", absolute |-> TRUE]}

(***************************************************************************)
(* The job chains at rest: no request has been made.                       *)
(***************************************************************************)
Chains == 1..MaxChains
Stages == 1..5

NoJob == [status |-> "none", output |-> "unset"]
NoPick == [video |-> 0, json |-> 0, depth |-> 0]

\* no path: None, or nothing yet
NoPath == [kind |-> "none", owner |-> 0, depth |-> 0]

ChainIdle ==
    /\ jobs = [c \in Chains |-> [s \in Stages |-> NoJob]]
    /\ queue = <<>>
    /\ downloads = <<>>
    /\ answer = [c \in Chains |-> "unset"]
    /\ picked = [c \in Chains |-> NoPick]
    /\ result_path = [c \in Chains |-> NoPath]
    /\ sent = [c \in Chains |-> NoPath]

(***************************************************************************)
(* cut_and_merge, processing.py:10-135, one action per step between two    *)
(* calls of the external encoder.                                          *)
(***************************************************************************)
\* a timestamps value that is not a list is never read: it stands as <<>>
InitWith(Inputs, Names, Used) ==
    /\ ChainIdle
    /\ data = NoJson
    /\ loaded = TRUE
    /\ used_ids \in Used
    /\ session_id = 0
    /\ exits = <<>>
    /\ out_file = "absent"
    /\ pdv_result = "pending"
    /\ input_exists \in BOOLEAN
    /\ \/ ts_is_list = TRUE /\ timestamps \in Inputs
       \/ ts_is_list = FALSE /\ timestamps = <<>>
    /\ output_name \in Names
    /\ pc = "Idle"
    /\ work_dir = FALSE
    /\ ass = <<>>
    /\ clip_names = <<>>
    /\ durations = <<>>
    /\ requests = <<>>
    /\ result = "pending"

DefaultName == {n \in OutputNames : ~n.absolute}

\* the name process_downloaded_video passes, processing.py:202-216
ProcessedName == {n \in OutputNames : n.absolute}

\* uuid4 draws an id no earlier call has drawn: the ids 1..k are taken
Uuids == 1..MaxUuids
UsedBefore == {1..k : k \in 0..(MaxUuids - 1)}

InitCaption == InitWith(CaptionInputs, ProcessedName, {1..(MaxUuids - 1)})

InitMerge == InitWith(MergeInputs, OutputNames, UsedBefore)

\* input checks that let an empty list through
InputsOkAnyList == input_exists /\ ts_is_list

\* processing.py:15-21
InputsOk == input_exists /\ ts_is_list /\ timestamps # <<>>

\* processing.py:212   cut_and_merge is entered once timestamps is bound
\* and process_downloaded_video has not returned
Called == loaded /\ pdv_result = "pending"

\* processing.py:15-21   return None
Reject ==
    /\ Called
    /\ pc = "Idle"
    /\ ~InputsOk
    /\ pc' = "Failed"
    /\ result' = "none"
    /\ UNCHANGED <<inputs, work_dir, ass, clip_names, durations, requests>>
    /\ UNCHANGED <<exits, session_id, out_file, outer, chain>>

\* processing.py:23-37   the session directory and the caption file
Start ==
    /\ Called
    /\ pc = "Idle"
    /\ InputsOk
    /\ session_id' \in Uuids \ used_ids
    /\ work_dir' = TRUE
    /\ ass' = generate_karaoke_ass_file(timestamps)
    /\ clip_names' = <<>>
    /\ durations' = <<>>
    /\ pc' = "Extracting"
    /\ UNCHANGED <<inputs, requests, result, exits, out_file, outer, chain>>

\* processing.py:45
Duration(ts) == ts["end_sec"] - ts["start_sec"]

\* an iteration that asks for the same clip again when the encoder fails
ExtractRetrying(ok) ==
    /\ pc = "Extracting"
    /\ LET i == Len(clip_names) + 1
           ts == timestamps[i]
       IN  /\ requests' = Append(requests, ExtractRequest("input_video", ts, i))
           /\ exits' = Append(exits, IF ok THEN 0 ELSE 1)
           /\ IF ~ok THEN UNCHANGED <<clip_names, durations, pc>>
              ELSE /\ clip_names' = Append(clip_names, i)
                   /\ durations' = Append(durations, Duration(ts))
                   /\ pc' = IF i = Len(timestamps) THEN "Merging" ELSE "Extracting"
           /\ result' = result
    /\ UNCHANGED <<inputs, work_dir, ass, session_id, out_file, outer, chain>>

\* an iteration that carries on whatever the encoder's exit, as
\* subprocess.run without check=True would
ExtractUnchecked(ok) ==
    /\ pc = "Extracting"
    /\ LET i == Len(clip_names) + 1
           ts == timestamps[i]
       IN  /\ clip_names' = Append(clip_names, i)
           /\ durations' = Append(durations, Duration(ts))
           /\ requests' = Append(requests, ExtractRequest("input_video", ts, i))
           /\ exits' = Append(exits, IF ok THEN 0 ELSE 1)
           /\ pc' = IF i = Len(timestamps) THEN "Merging" ELSE "Extracting"
           /\ result' = result
    /\ UNCHANGED <<inputs, work_dir, ass, session_id, out_file, outer, chain>>

\* processing.py:40-66   one iteration of the loop; ok is the encoder's exit
Extract(ok) ==
    /\ pc = "Extracting"
    /\ LET i == Len(clip_names) + 1
           ts == timestamps[i]
       IN  /\ clip_names' = Append(clip_names, i)
           /\ durations' = Append(durations, Duration(ts))
           /\ requests' = Append(requests, ExtractRequest("input_video", ts, i))
           /\ exits' = Append(exits, IF ok THEN 0 ELSE 1)
           /\ IF ~ok THEN pc' = "Failed" /\ result' = "raised"
              ELSE /\ pc' = IF i = Len(timestamps) THEN "Merging" ELSE "Extracting"
                   /\ result' = result
    /\ UNCHANGED <<inputs, work_dir, ass, session_id, out_file, outer, chain>>

ExtractOk == Extract(TRUE)

ExtractFail == Extract(FALSE)

\* a merge stage without the single-clip branch
MergeStageRequestGraph(names, durs, output_path) ==
    MergeRequest(names, durs, output_path)

\* processing.py:71-131   the request of the merge stage
MergeStageRequest(names, durs, output_path) ==
    IF Len(names) = 1 THEN CopyRequest(names, output_path)
    ELSE MergeRequest(names, durs, output_path)

\* a merge stage that is tried again when the encoder fails
MergeRetrying(ok) ==
    /\ pc = "Merging"
    /\ requests' = Append(requests,
           MergeStageRequest(clip_names, durations, OutputPath(output_name)))
    /\ exits' = Append(exits, IF ok THEN 0 ELSE 1)
    /\ IF ok THEN pc' = "Done" /\ result' = "path" /\ out_file' = "complete"
       ELSE pc' = "Merging" /\ result' = result
            /\ out_file' \in {out_file, "partial"}
    /\ UNCHANGED <<inputs, work_dir, ass, clip_names, durations, session_id, outer,
                   chain>>

\* processing.py:68-135   ok is the encoder's exit
Merge(ok) ==
    /\ pc = "Merging"
    /\ requests' = Append(requests,
           MergeStageRequest(clip_names, durations, OutputPath(output_name)))
    /\ exits' = Append(exits, IF ok THEN 0 ELSE 1)
    /\ IF ok THEN pc' = "Done" /\ result' = "path" /\ out_file' = "complete"
       ELSE pc' = "Failed" /\ result' = "raised"
            /\ out_file' \in {out_file, "partial"}
    /\ UNCHANGED <<inputs, work_dir, ass, clip_names, durations, session_id, outer,
                   chain>>

MergeOk == Merge(TRUE)

MergeFail == Merge(FALSE)

\* processing.py:211-227   process_downloaded_video around its call of
\* cut_and_merge: the path if the call returned one and the file exists,
\* None if the call returned None or raised
Report ==
    /\ pc \in {"Done", "Failed"}
    /\ output_name.absolute
    /\ pdv_result = "pending"
    /\ pdv_result' = IF result = "path" /\ out_file # "absent" THEN "path"
                     ELSE "none"
    /\ UNCHANGED <<inputs, pc, work_dir, ass, clip_names, durations, requests,
                   result, exits, used_ids, session_id, out_file, chain>>

Next ==
    Reject \/ Start \/ ExtractOk \/ ExtractFail \/ MergeOk \/ MergeFail \/ Report

\* a loader that takes only a bare array
LoadListOnly(json) ==
    IF json.shape = "list" THEN [ok |-> TRUE, timestamps |-> json.value, is_list |-> TRUE]
    ELSE [ok |-> FALSE, timestamps |-> <<>>, is_list |-> TRUE]

\* processing.py:176-199   json.load and the choice of timestamps: ok is
\* FALSE where the function returns None, on a shape it does not know, on
\* text that is not JSON and on a timestamps value that is empty
LoadTimestamps(json) ==
    IF json.shape \in {"list", "wrapped"} /\ ~(json.is_list /\ json.value = <<>>)
    THEN [ok |-> TRUE, timestamps |-> json.value, is_list |-> json.is_list]
    ELSE [ok |-> FALSE, timestamps |-> <<>>, is_list |-> TRUE]

\* processing.py:176-199   process_downloaded_video up to its call of
\* cut_and_merge
Load ==
    /\ ~loaded
    /\ pdv_result = "pending"
    /\ LET got == LoadTimestamps(data)
       IN  /\ loaded' = got.ok
           /\ timestamps' = got.timestamps
           /\ ts_is_list' = got.is_list
           /\ pdv_result' = IF got.ok THEN "pending" ELSE "none"
    /\ UNCHANGED <<input_exists, output_name, data, pc, work_dir, ass, clip_names,
                   durations, requests, result, exits, used_ids, session_id,
                   out_file, chain>>

\* process_downloaded_video has found its video and its .short.json
InitLoad ==
    /\ ChainIdle
    /\ data \in JsonValues
    /\ loaded = FALSE
    /\ input_exists = TRUE
    /\ timestamps = <<>>
    /\ ts_is_list = TRUE
    /\ output_name \in ProcessedName
    /\ pc = "Idle"
    /\ work_dir = FALSE
    /\ ass = <<>>
    /\ clip_names = <<>>
    /\ durations = <<>>
    /\ requests = <<>>
    /\ result = "pending"
    /\ exits = <<>>
    /\ used_ids \in UsedBefore
    /\ session_id = 0
    /\ out_file = "absent"
    /\ pdv_result = "pending"

NextLoad == Load \/ Next

SpecLoad == InitLoad /\ [][NextLoad]_vars

SpecCaption == InitCaption /\ [][Next]_vars

SpecMerge == InitMerge /\ [][Next]_vars

(***************************************************************************)
(* Properties of the merge stage, stated of SpecMerge.                     *)
(***************************************************************************)
\* the duration of segment n, from the input
ClipDur(n) == timestamps[n]["end_sec"] - timestamps[n]["start_sec"]

RECURSIVE SumDur(_)
\* the durations of clips 1..i, summed
SumDur(i) == IF i = 0 THEN 0 ELSE SumDur(i - 1) + ClipDur(i)

NumClips == Len(timestamps)

IsXfade(st) == st.f = "xfade"
IsAcrossfade(st) == st.f = "acrossfade"
Xfades(req) == SelectSeq(req.filter_complex, IsXfade)
Acrossfades(req) == SelectSeq(req.filter_complex, IsAcrossfade)

MergeReqs == {r \in 1..Len(requests) : requests[r].op = "merge"}
CopyReqs == {r \in 1..Len(requests) : requests[r].op = "copy"}

\* C1: with N >= 2 clips, the xfade offset of transition i (1 <= i <= N-1)
\* is the sum of the durations of clips 1..i minus i times trans_dur.
C1_OffsetLaw ==
    \A r \in MergeReqs :
        LET xs == Xfades(requests[r])
        IN  \A i \in 1..(NumClips - 1) :
                /\ i <= Len(xs)
                /\ xs[i].offset = Ticks(SumDur(i)) - i * xs[i].duration

\* C1: durations 5 s, 6 s, 4 s are merged with trans_dur 0.75 s and the
\* offsets 4.25 s and 9.5 s.
C1_Witness ==
    \E r \in MergeReqs :
        LET xs == Xfades(requests[r])
        IN  /\ durations = <<5000, 6000, 4000>>
            /\ Len(xs) = 2
            /\ xs[1].duration = Ticks(750)
            /\ xs[1].offset = Ticks(4250)
            /\ xs[2].offset = Ticks(9500)

\* C2: with N >= 2 clips, trans_dur is min(0.75 s, shortest duration / 2.1)
\* and is strictly less than half of the shortest clip's duration.
C2_TransDurBound ==
    \A r \in MergeReqs :
        LET shortest == Ticks(SeqMin([n \in 1..NumClips |-> ClipDur(n)]))
        IN  \A k \in 1..Len(requests[r].filter_complex) :
                LET t == requests[r].filter_complex[k].duration
                IN  /\ \/ t = Ticks(750) /\ 21 * t <= 10 * shortest
                       \/ 21 * t = 10 * shortest /\ t <= Ticks(750)
                    /\ 2 * t < shortest

\* the length of the output the request produces: the single clip copied,
\* or the start of the last transition plus the last clip
ImpliedDuration(req) ==
    IF req.op = "copy" THEN Ticks(ClipDur(req.input))
    ELSE LET xs == Xfades(req)
         IN  xs[Len(xs)].offset + Ticks(ClipDur(NumClips))

\* C3: for N >= 1 clips the merged output lasts the sum of the clip
\* durations minus (N-1) times trans_dur.
C3_TotalDuration ==
    /\ \A r \in CopyReqs :
           ImpliedDuration(requests[r]) = Ticks(SumDur(NumClips))
    /\ \A r \in MergeReqs :
           LET xs == Xfades(requests[r])
           IN  /\ Len(xs) >= 1
               /\ ImpliedDuration(requests[r])
                      = Ticks(SumDur(NumClips)) - (NumClips - 1) * xs[1].duration

\* C3: 5 s + 6 s + 4 s merged with two transitions of 0.75 s last 13.5 s.
C3_Witness ==
    \E r \in MergeReqs :
        /\ durations = <<5000, 6000, 4000>>
        /\ ImpliedDuration(requests[r]) = Ticks(13500)

\* C4: with N >= 2 clips the merge has N-1 video and N-1 audio crossfade
\* stages; stage i reads the output of stage i-1 (the raw first clip when
\* i = 1) and the raw clip i+1, never two raw clips when i > 1.
C4_ChainShape ==
    \A r \in MergeReqs :
        LET req == requests[r]
            Chained(sts, s) ==
                /\ Len(sts) = NumClips - 1
                /\ \A i \in 1..Len(sts) :
                       /\ sts[i].in1 = IF i = 1 THEN Raw(0, s) ELSE sts[i - 1].out
                       /\ i > 1 => sts[i].in1.kind # "raw"
                       /\ sts[i].in2 = Raw(i, s)
                       /\ sts[i].out.kind # "raw"
        IN  /\ NumClips >= 2
            /\ req.inputs = [n \in 1..NumClips |-> n]
            /\ Chained(Xfades(req), "v")
            /\ Chained(Acrossfades(req), "a")
            /\ Len(req.filter_complex) = 2 * (NumClips - 1)

\* C4: a merge of three clips, whose second stage reads the first stage.
C4_Witness ==
    \E r \in MergeReqs :
        /\ NumClips = 3
        /\ Xfades(requests[r])[2].in1 = Mid(1, "v")
        /\ Acrossfades(requests[r])[2].in1 = Mid(1, "a")

\* C5: with exactly one segment, the merge stage issues one request, a
\* stream copy of clip 1 to the output path, and no crossfade request.
C5_SingleClipCopy ==
    NumClips = 1 =>
        /\ MergeReqs = {}
        /\ \A r \in 1..Len(requests) : requests[r].op \in {"extract", "copy"}
        /\ Cardinality(CopyReqs) <= 1
        /\ pc = "Done" => CopyReqs # {}
        /\ \A r \in CopyReqs :
               /\ r = 2 /\ Len(requests) = 2
               /\ requests[r].input = 1
               /\ requests[r].codec = "copy"
               /\ requests[r].out.name = output_name.name
               /\ requests[r].out.dir = IF output_name.absolute THEN "/" ELSE "work_dir"

\* C5: a run of one segment that ends with its copy issued.
C5_Witness == NumClips = 1 /\ pc = "Done" /\ CopyReqs = {2}

(***************************************************************************)
(* Properties of the caption track, stated of SpecCaption.                 *)
(***************************************************************************)
\* the caption file is written once the call has accepted its inputs
CaptionsWritten == work_dir

HasWordTiming(seg) == "words" \in DOMAIN seg /\ Len(seg["words"]) >= 1

\* ceil(k / 3) cues for k >= 1 words, one cue otherwise
ExpectedCues(seg) ==
    IF HasWordTiming(seg) THEN (Len(seg["words"]) + 2) \div 3 ELSE 1

RECURSIVE CuesBefore(_)
\* the cues expected of the segments before segment n
CuesBefore(n) ==
    IF n = 1 THEN 0 ELSE CuesBefore(n - 1) + ExpectedCues(timestamps[n - 1])

AllCuesPresent == Len(ass) = CuesBefore(NumClips + 1)

\* the cues of segment n, when all cues are present
Block(n) ==
    SubSeq(ass, CuesBefore(n) + 1, CuesBefore(n) + ExpectedCues(timestamps[n]))

IsK(piece) == piece.kind = "k"
KPieces(cue) == SelectSeq(cue.text, IsK)
CueWords(cue) == [j \in 1..Len(KPieces(cue)) |-> KPieces(cue)[j].word]

\* a stamp H:MM:SS.CS in centiseconds
CueCs(t) == ((t.h * 60 + t.m) * 60 + t.s) * 100 + t.cs

\* the words of window c of a word list: words 3c-2 .. 3c
Window(words, c) == SubSeq(words, 3 * c - 2, Min2(3 * c, Len(words)))

WordSegs == {n \in 1..NumClips : HasWordTiming(timestamps[n])}

C7_CueTimesMonotone ==
    CaptionsWritten =>
        \A c \in 1..(Len(ass) - 1) :
            /\ CueCs(ass[c].start) <= CueCs(ass[c + 1].start)
            /\ CueCs(ass[c].end) <= CueCs(ass[c + 1].end)

IsModelWord(w) == DOMAIN w = {"word", "start_sec", "end_sec"}

\* C8 as claimed: a window of words shaped {word, start_sec, end_sec} gets
\* a cue from its first word's start_sec to its last word's end_sec.
C8_CueSpansModelWords ==
    CaptionsWritten /\ AllCuesPresent =>
        \A n \in WordSegs :
            \A c \in 1..Len(Block(n)) :
                LET ws == Window(timestamps[n]["words"], c)
                    cue == Block(n)[c]
                IN  (\A j \in 1..Len(ws) : IsModelWord(ws[j])) =>
                        /\ CueCs(cue.start) = ws[1]["start_sec"] \div 10
                        /\ CueCs(cue.end) = ws[Len(ws)]["end_sec"] \div 10

\* C8 amended: a cue starts at the "start" of its window's first word and
\* ends at the "end" of its window's last word; a word without that key, as
\* one shaped {word, start_sec, end_sec} is, gives the segment's start_sec,
\* respectively end_sec, instead.
C8_CueSpansWords ==
    CaptionsWritten =>
        /\ AllCuesPresent
        /\ \A n \in WordSegs :
               \A c \in 1..Len(Block(n)) :
                   LET ws == Window(timestamps[n]["words"], c)
                       first == ws[1]
                       last == ws[Len(ws)]
                       cue == Block(n)[c]
                   IN  /\ CueCs(cue.start) =
                              (IF "start" \in DOMAIN first THEN first["start"]
                               ELSE timestamps[n]["start_sec"]) \div 10
                       /\ CueCs(cue.end) =
                              (IF "end" \in DOMAIN last THEN last["end"]
                               ELSE timestamps[n]["end_sec"]) \div 10

\* C8: a cue that starts with its first word, 10.33 s, and for want of an
\* "end" on its last word ends with the segment, 16.00 s.
C8_Witness ==
    /\ CaptionsWritten
    /\ NumClips = 1
    /\ HasWordTiming(timestamps[1])
    /\ Len(timestamps[1]["words"]) = 2
    /\ timestamps[1]["words"][1] = PromptWord(1, 10333, 10866)
    /\ IsModelWord(timestamps[1]["words"][2])
    /\ Len(ass) = 1
    /\ CueCs(ass[1].start) = 1033
    /\ CueCs(ass[1].end) = 1600

HasTimes(w) == {"start", "end"} \subseteq DOMAIN w

\* the karaoke pieces of segment n, one per word
SegPieces(n) == Flatten([c \in 1..Len(Block(n)) |-> KPieces(Block(n)[c])])

\* C9 as claimed: the highlight duration of every word is
\* floor((end - start) * 100), also when the end precedes the start.
C9_FloorCentis ==
    CaptionsWritten /\ AllCuesPresent =>
        \A n \in WordSegs :
            \A j \in 1..Len(timestamps[n]["words"]) :
                LET w == timestamps[n]["words"][j]
                IN  HasTimes(w) /\ j <= Len(SegPieces(n)) =>
                        LET cs == SegPieces(n)[j].cs
                            d == (w["end"] - w["start"]) * 100
                        IN  cs * 1000 <= d /\ d < (cs + 1) * 1000

\* C9 amended: the highlight duration of every word that carries start and
\* end is (end - start) * 100 truncated toward zero: rounded downwards when
\* end >= start, upwards when the end precedes the start.
C9_TruncCentis ==
    CaptionsWritten =>
        /\ AllCuesPresent
        /\ \A n \in WordSegs :
               /\ Len(SegPieces(n)) = Len(timestamps[n]["words"])
               /\ \A j \in 1..Len(timestamps[n]["words"]) :
                      LET w == timestamps[n]["words"][j]
                          cs == SegPieces(n)[j].cs
                          d == (w["end"] - w["start"]) * 100
                      IN  HasTimes(w) =>
                              IF d >= 0 THEN cs * 1000 <= d /\ d < (cs + 1) * 1000
                              ELSE (cs - 1) * 1000 < d /\ d <= cs * 1000

\* C9: a word of 0.533 s highlighted for 53 cs beside a word of -0.533 s
\* highlighted for -53 cs.
C9_Witness ==
    /\ CaptionsWritten
    /\ NumClips = 1
    /\ HasWordTiming(timestamps[1])
    /\ Len(timestamps[1]["words"]) = 2
    /\ timestamps[1]["words"][1] = PromptWord(1, 10333, 10866)
    /\ timestamps[1]["words"][2] = PromptWord(2, 10866, 10333)
    /\ Len(ass) = 1
    /\ KPieces(ass[1])[1].cs = 53
    /\ KPieces(ass[1])[2].cs = -53

\* C10: a segment whose words are absent or empty gets exactly one cue, from
\* its start_sec to its end_sec, holding its text and no highlight tag.
C10_FallbackCue ==
    CaptionsWritten =>
        /\ AllCuesPresent
        /\ \A n \in (1..NumClips) \ WordSegs :
               LET seg == timestamps[n]
                   text == IF "text" \in DOMAIN seg THEN seg["text"] ELSE <<>>
                   cue == Block(n)[1]
               IN  /\ Len(Block(n)) = 1
                   /\ CueCs(cue.start) = seg["start_sec"] \div 10
                   /\ CueCs(cue.end) = seg["end_sec"] \div 10
                   /\ KPieces(cue) = <<>>
                   /\ Len(cue.text) = Len(text)
                   /\ \A k \in 1..Len(text) :
                          /\ cue.text[k].kind = "ch"
                          /\ cue.text[k].word = IF text[k] = "\n" THEN " " ELSE text[k]

\* C10: a segment without a words key and a segment with an empty word list,
\* one cue each.
C10_Witness ==
    /\ CaptionsWritten
    /\ NumClips = 2
    /\ "words" \notin DOMAIN timestamps[1]
    /\ timestamps[1]["text"] = <<"h", "\n", "i">>
    /\ "words" \in DOMAIN timestamps[2]
    /\ timestamps[2]["words"] = <<>>
    /\ Len(ass) = 2
    /\ Len(ass[1].text) = 3
    /\ ass[1].text[2].word = " "
    /\ CueCs(ass[2].start) = timestamps[2]["start_sec"] \div 10

(***************************************************************************)
(* Properties of the extraction stage.                                     *)
(***************************************************************************)
ExtractReqs == {r \in 1..Len(requests) : requests[r].op = "extract"}

\* processing.py:48-50   computed for each clip, and read by nothing
subtitle_offset(ts) == ts["start_sec"]

\* processing.py:31-33,58   the cues of the file the ass= filter of the
\* request names: the one track written before the loop
CuesHanded(req) == IF req.ass = "work_dir/subtitles.ass" THEN ass ELSE <<>>

\* the time on the source's timeline of cue c of segment n
AbsCueStart(n, c) ==
    LET seg == timestamps[n]
    IN  IF n \in WordSegs
        THEN Get(Window(seg["words"], c)[1], "start", seg["start_sec"])
        ELSE seg["start_sec"]

AbsCueEnd(n, c) ==
    LET seg == timestamps[n]
        ws == IF n \in WordSegs THEN Window(seg["words"], c) ELSE <<>>
    IN  IF n \in WordSegs THEN Get(ws[Len(ws)], "end", seg["end_sec"])
        ELSE seg["end_sec"]

\* C11: the cues handed to the encoder for clip i carry cue_time minus
\* segment_i.start_sec, the clip's timeline, not the source's.
C11_CuesOnClipTimeline ==
    \A r \in ExtractReqs :
        LET n == requests[r].out
            off == subtitle_offset(timestamps[n])
            cues == CuesHanded(requests[r])
        IN  /\ Len(cues) >= CuesBefore(n) + ExpectedCues(timestamps[n])
            /\ \A c \in 1..ExpectedCues(timestamps[n]) :
                   LET cue == cues[CuesBefore(n) + c]
                   IN  /\ cue.start = format_time(AbsCueStart(n, c) - off)
                       /\ cue.end = format_time(AbsCueEnd(n, c) - off)

\* the segments whose end is not after their start
BadSegs ==
    {n \in 1..NumClips : timestamps[n]["end_sec"] <= timestamps[n]["start_sec"]}

\* C12: a segment with end_sec <= start_sec fails the run on validation:
\* no encoder request is issued for that segment or after it, and the run
\* returns no path.
C12_BadSegmentRejected ==
    \A n \in BadSegs :
        /\ \A r \in 1..Len(requests) :
               /\ requests[r].op = "extract"
               /\ requests[r].out < n
        /\ result # "path"

\* the extractions whose encoder exited non-zero
FailedExtracts == {r \in ExtractReqs : exits[r] # 0}

\* C13: an extraction whose encoder exits non-zero ends the run: it is the
\* last request issued (no later extraction, no merge), nothing is written
\* at the output path, and process_downloaded_video returns no path.
C13_ExtractFailureAborts ==
    \A r \in FailedExtracts :
        /\ r = Len(requests)
        /\ pc = "Failed"
        /\ result = "raised"
        /\ out_file = "absent"
        /\ pdv_result \in {"pending", "none"}

\* C13: the second of three extractions failed, and
\* process_downloaded_video has returned None.
C13_Witness ==
    /\ NumClips = 3
    /\ FailedExtracts = {2}
    /\ Len(requests) = 2
    /\ output_name.absolute
    /\ pdv_result = "none"

(***************************************************************************)
(* Properties of the output file and of the run as a whole.                *)
(***************************************************************************)
\* the merge-stage requests whose encoder exited non-zero or was killed
FailedMerges == {r \in MergeReqs \cup CopyReqs : exits[r] # 0}

\* C14: after a failure or a kill of the merge-stage encoder no partly
\* written file lies at the output path: a run ends with a complete output
\* or with none.
C14_NoPartialOutput ==
    /\ FailedMerges # {} => out_file = "absent"
    /\ pc \in {"Done", "Failed"} => out_file \in {"absent", "complete"}

\* what cut_and_merge itself writes
frame == <<pc, work_dir, ass, clip_names, durations, requests, result, exits,
           session_id, out_file>>

\* a step of the run: along Idle -> Extracting -> Merging -> Done, or to
\* Failed from a state that is not terminal; Extracting is held only from
\* one segment to the next
RunStep ==
    \/ pc = "Idle" /\ pc' \in {"Extracting", "Failed"}
    \/ pc = "Extracting" /\ pc' \in {"Extracting", "Merging", "Failed"}
          /\ Len(clip_names') = Len(clip_names) + 1
    \/ pc = "Merging" /\ pc' \in {"Done", "Failed"}
    \/ UNCHANGED frame

\* the caption track is made on the step that leaves Idle for Extracting,
\* before any encoder request, and on no other step
CaptionStep ==
    /\ (pc = "Idle" /\ pc' = "Extracting") => (requests = <<>> /\ work_dir')
    /\ (work_dir' # work_dir \/ ass' # ass) => (pc = "Idle" /\ pc' = "Extracting")
    /\ requests' # <<>> => work_dir

\* C17: a run moves only along Idle -> Extracting -> Merging -> Done, with
\* Failed entered from any state that is not terminal; Done and Failed are
\* left by no step; no state is skipped or entered twice; the caption track
\* is generated once, before the first extraction.
C17_RunOrder == [][RunStep /\ CaptionStep]_vars

\* C17: a run of two segments that went through every state to Done.
C17_Witness ==
    /\ pc = "Done"
    /\ NumClips = 2
    /\ Len(requests) = 3
    /\ exits = <<0, 0, 0>>
    /\ Len(ass) = 2

(***************************************************************************)
(* The working directory of a call, processing.py:23-42.  A directory is   *)
(* the sequence of its path components, a file is [dir, name], the name    *)
(* a sequence too: clip_<i>.mp4 is <<"clip", i>>.                           *)
(***************************************************************************)
\* processing.py:24   Path(f"session_{session_id}")
SessionDir(id) == <<"session", id>>

\* one clips directory for every call
ClipsDirShared(id) == <<"clips">>

\* processing.py:27   work_dir / "clips"
ClipsDir(id) == Append(SessionDir(id), "clips")

\* processing.py:41-42   clips_dir / f"clip_{i}.mp4"
ClipPath(id, i) == [dir |-> ClipsDir(id), name |-> <<"clip", i>>]

\* processing.py:31   work_dir / "subtitles.ass"
AssPath(id) == [dir |-> SessionDir(id), name |-> <<"subtitles.ass">>]

\* the clips and the caption track this call has written or asked the
\* encoder to write
RunFiles ==
    (IF work_dir THEN {AssPath(session_id)} ELSE {})
    \cup {ClipPath(session_id, requests[r].out) : r \in ExtractReqs}

\* the clips and caption tracks of the calls made before
PriorFiles ==
    UNION {{AssPath(u)} \cup {ClipPath(u, i) : i \in 1..MaxSegs} : u \in used_ids}

Under(dir, f) ==
    /\ Len(f.dir) >= Len(dir)
    /\ SubSeq(f.dir, 1, Len(dir)) = dir

\* C19: a call that passes the input checks makes a working directory named
\* by an id no other call has, writes its clips and its caption track only
\* under it, and shares no clip path with another call.
C19_OwnWorkDir ==
    /\ work_dir => session_id \in Uuids \ used_ids
    /\ ~work_dir => RunFiles = {}
    /\ \A f \in RunFiles : Under(SessionDir(session_id), f)
    /\ RunFiles \cap PriorFiles = {}

\* C19: a call made after another one, which has written its caption track
\* and asked for two clips.
C19_Witness ==
    /\ used_ids = {1}
    /\ session_id = 2
    /\ Cardinality(RunFiles) = 3
    /\ Cardinality(PriorFiles) = MaxSegs + 1

\* the clip names of the merge stage's inputs, in the order of its -i flags
InputsOf(req) == IF req.op = "copy" THEN <<req.input>> ELSE req.inputs

\* C20: the merge stage is given the clips in the order of the input
\* segments: its k-th input is the clip extracted from segment k.
C20_InputOrder ==
    \A r \in MergeReqs \cup CopyReqs :
        LET ins == InputsOf(requests[r])
        IN  /\ Len(ins) = NumClips
            /\ \A k \in 1..NumClips :
                   /\ requests[k].op = "extract"
                   /\ requests[k].out = ins[k]
                   /\ requests[k].ss = timestamps[k]["start_sec"]
                   /\ requests[k].to = timestamps[k]["end_sec"]
                   /\ ins[k] = clip_names[k]

\* C20: three segments given out of chronological order, merged in the
\* order given.
C20_Witness ==
    \E r \in MergeReqs :
        /\ NumClips = 3
        /\ timestamps[1]["start_sec"] = 11000
        /\ timestamps[2]["start_sec"] = 0
        /\ timestamps[3]["start_sec"] = 5000
        /\ requests[r].inputs = <<1, 2, 3>>
        /\ requests[2].ss = 0

(***************************************************************************)
(* The job chains.  A request enqueues four jobs, each depending on the    *)
(* one before (main.py:34-76), the bot a fifth that delivers the result    *)
(* (bot.py:55-124); one worker runs the job at the head of the             *)
(* queue to its end (worker.py).  The scheduler marks a job finished when  *)
(* its function returns, whatever it returns, and only then enqueues the   *)
(* job that depends on it; a job whose function raises is marked failed    *)
(* and what depends on it stays deferred.                                  *)
(*                                                                         *)
(* A file of downloads/ is [kind, owner, depth, content]: owner is the     *)
(* chain whose request it stems from, depth counts the _processed suffixes *)
(* of an mp4.  The file names of two chains are taken to differ.           *)
(***************************************************************************)
File(kind, owner, depth, content) ==
    [kind |-> kind, owner |-> owner, depth |-> depth, content |-> content]

SameName(f, g) == f.kind = g.kind /\ f.owner = g.owner /\ f.depth = g.depth

\* the directory after f is written: f is the most recently modified
Touch(files, f) ==
    LET Other(g) == ~SameName(g, f)
    IN  Append(SelectSeq(files, Other), f)

\* the files a glob matches, most recently modified last
Glob(files, kind) ==
    LET Matches(g) == g.kind = kind
    IN  SelectSeq(files, Matches)

\* sorted(..., key=os.path.getmtime, reverse=True)[0]
MostRecent(files) == files[Len(files)]

\* what the selector may answer: a list of segments, JSON of a shape the
\* processing stage does not take, text that is not JSON.  A list under the
\* key timestamps and an empty list are followed in SpecLoad.
Answers == {"list", "other", "invalid"}

\* what the handlers leave alone
shared == <<downloads, answer, picked, result_path, sent>>

\* a handler that enqueues every job at once, none depending on another
EnqueueAtOnce(c, last) ==
    /\ \A s \in Stages : jobs[c][s].status = "none"
    /\ jobs' = [jobs EXCEPT ![c] =
                   [s \in Stages |->
                       [status |-> IF s <= last THEN "queued" ELSE "none",
                        output |-> "unset"]]]
    /\ queue' = queue \o [s \in 1..last |-> <<c, s>>]
    /\ UNCHANGED <<shared, call>>

\* main.py:42-76, bot.py:78-118   queue.enqueue of the jobs 1..last, each
\* but the first with depends_on the one before
Enqueue(c, last) ==
    /\ \A s \in Stages : jobs[c][s].status = "none"
    /\ jobs' = [jobs EXCEPT ![c] =
                   [s \in Stages |->
                       [status |-> IF s = 1 THEN "queued"
                                   ELSE IF s <= last THEN "deferred" ELSE "none",
                        output |-> "unset"]]]
    /\ queue' = Append(queue, <<c, 1>>)
    /\ UNCHANGED <<shared, call>>

\* main.py:34-99   start_download: four jobs
Submit(c) == Enqueue(c, 4)

\* bot.py:55-124   handle_message: the four jobs and the Telegram delivery
HandleMessage(c) == Enqueue(c, 5)

\* worker.py:12-13   the worker takes the job at the head of the queue
Running(c, s) == queue # <<>> /\ Head(queue) = <<c, s>>

\* main.py:53-76   depends_on: the job of stage s of chain c has ended, by
\* returning or by raising
Settle(c, s, returned, output) ==
    /\ jobs' = [jobs EXCEPT ![c] =
                   [t \in Stages |->
                       IF t = s
                       THEN [status |-> IF returned THEN "finished" ELSE "failed",
                             output |-> output]
                       ELSE IF t = s + 1 /\ returned /\ jobs[c][t].status = "deferred"
                       THEN [status |-> "queued", output |-> "unset"]
                       ELSE jobs[c][t]]]
    /\ queue' = Tail(queue)
                \o (IF returned /\ s + 1 \in Stages
                       /\ jobs[c][s + 1].status = "deferred"
                    THEN <<<<c, s + 1>>>> ELSE <<>>)

\* downloads.py:68-105   download_subtitle: None when there are no
\* subtitles and on any exception, never an exception
DownloadSubtitle(c, got) ==
    /\ Running(c, 1)
    /\ downloads' = IF got THEN Touch(downloads, File("vtt", c, 0, "text"))
                    ELSE downloads
    /\ Settle(c, 1, TRUE, IF got THEN "produced" ELSE "nothing")
    /\ UNCHANGED <<answer, picked, result_path, sent, call>>

\* ai.py:12-176   generate_short_subtitles: raises when the subtitle file
\* is missing (no file of that name lies in the working directory either)
\* or the selector call fails; an answer that is not JSON is warned about
\* and written as it is
GenerateShort(c, ans) ==
    /\ Running(c, 2)
    /\ IF Glob(downloads, "vtt") = <<>>
          \/ \A n \in 1..Len(downloads) :
                 ~SameName(downloads[n], File("vtt", c, 0, "text"))
       THEN /\ Settle(c, 2, FALSE, "nothing")
            /\ UNCHANGED <<downloads, answer>>
       ELSE IF ans = "error"
       THEN /\ downloads' = Touch(downloads, File("srt", c, 0, "text"))
            /\ Settle(c, 2, FALSE, "nothing")
            /\ UNCHANGED answer
       ELSE /\ downloads' = Touch(Touch(downloads, File("srt", c, 0, "text")),
                                  File("short_json", c, 0, ans))
            /\ answer' = [answer EXCEPT ![c] = ans]
            /\ Settle(c, 2, TRUE, "produced")
    /\ UNCHANGED <<picked, result_path, sent, call>>

\* downloads.py:8-66   download_video: None when nothing was downloaded and
\* on any exception, never an exception
DownloadVideo(c, got) ==
    /\ Running(c, 3)
    /\ downloads' = IF got THEN Touch(downloads, File("mp4", c, 0, "complete"))
                    ELSE downloads
    /\ Settle(c, 3, TRUE, IF got THEN "produced" ELSE "nothing")
    /\ UNCHANGED <<answer, picked, result_path, sent, call>>

\* a processing stage that writes its output over its source
ProcessedPathInPlace(video) ==
    [kind |-> "mp4", owner |-> video.owner, depth |-> video.depth]

\* processing.py:202-205   video_path.with_name(f"{stem}_processed{suffix}")
ProcessedPath(video) ==
    [kind |-> "mp4", owner |-> video.owner, depth |-> video.depth + 1]

\* processing.py:137-229   process_downloaded_video: the most recent *.mp4
\* and the most recent *.short.json of downloads/; outcome is how
\* cut_and_merge ended: done, raised, or raised with the output partly
\* written.  None on every failure, never an exception
Process(c, outcome) ==
    /\ Running(c, 4)
    /\ LET videos == Glob(downloads, "mp4")
           jsons == Glob(downloads, "short_json")
           video == MostRecent(videos)
           json == MostRecent(jsons)
           output_path == ProcessedPath(video)
       IN  IF videos = <<>>
           THEN /\ Settle(c, 4, TRUE, "nothing")
                /\ UNCHANGED <<downloads, picked, result_path>>
           ELSE IF jsons = <<>>
           THEN /\ picked' = [picked EXCEPT ![c] =
                                 [video |-> video.owner, json |-> 0,
                                  depth |-> video.depth]]
                /\ Settle(c, 4, TRUE, "nothing")
                /\ UNCHANGED <<downloads, result_path>>
           ELSE /\ picked' = [picked EXCEPT ![c] =
                                 [video |-> video.owner, json |-> json.owner,
                                  depth |-> video.depth]]
                /\ IF json.content \notin {"list", "wrapped"} \/ outcome = "raised"
                   THEN /\ Settle(c, 4, TRUE, "nothing")
                        /\ UNCHANGED <<downloads, result_path>>
                   ELSE /\ downloads' =
                               Touch(downloads,
                                     File("mp4", output_path.owner, output_path.depth,
                                          IF outcome = "done" THEN "complete"
                                          ELSE "partial"))
                        /\ result_path' = [result_path EXCEPT ![c] =
                                           IF outcome = "done" THEN output_path
                                           ELSE NoPath]
                        /\ Settle(c, 4, TRUE,
                                  IF outcome = "done" THEN "produced" ELSE "nothing")
    /\ UNCHANGED <<answer, sent, call>>

\* telegram_notifier.py:52-58   glob("*_processed.mp4")
GlobProcessed(fs) ==
    LET Matches(g) == g.kind = "mp4" /\ g.depth >= 1
    IN  SelectSeq(fs, Matches)

\* telegram_notifier.py:25-77   send_video_to_telegram(chat_id): the most
\* recent *_processed.mp4 of downloads/; delivered is whether the upload
\* went through.  It returns on every failure, never an exception
Send(c, delivered) ==
    /\ Running(c, 5)
    /\ LET video_files == GlobProcessed(downloads)
       IN  IF video_files = <<>> \/ ~delivered
           THEN /\ Settle(c, 5, TRUE, "nothing")
                /\ UNCHANGED sent
           ELSE /\ sent' = [sent EXCEPT ![c] = MostRecent(video_files)]
                /\ Settle(c, 5, TRUE, "produced")
    /\ UNCHANGED <<downloads, answer, picked, result_path, call>>

\* the requests: chain 1 comes from the Telegram bot, the others from the
\* HTTP endpoint
BotChains == {1}

Request == \E c \in Chains \ BotChains : Submit(c)

BotRequest == \E c \in BotChains : HandleMessage(c)

SubtitleJob == \E c \in Chains, got \in BOOLEAN : DownloadSubtitle(c, got)

SelectorJob == \E c \in Chains, ans \in Answers \cup {"error"} : GenerateShort(c, ans)

VideoJob == \E c \in Chains, got \in BOOLEAN : DownloadVideo(c, got)

ProcessJob ==
    \E c \in Chains, outcome \in {"done", "raised", "partial"} : Process(c, outcome)

SendJob == \E c \in Chains, delivered \in BOOLEAN : Send(c, delivered)

NextChain ==
    Request \/ BotRequest \/ SubtitleJob \/ SelectorJob \/ VideoJob \/ ProcessJob
    \/ SendJob

\* no call of cut_and_merge is followed step by step
CallIdle ==
    /\ data = NoJson
    /\ loaded = TRUE
    /\ input_exists = FALSE
    /\ timestamps = <<>>
    /\ ts_is_list = TRUE
    /\ output_name \in ProcessedName
    /\ pc = "Idle"
    /\ work_dir = FALSE
    /\ ass = <<>>
    /\ clip_names = <<>>
    /\ durations = <<>>
    /\ requests = <<>>
    /\ result = "pending"
    /\ exits = <<>>
    /\ used_ids = {}
    /\ session_id = 0
    /\ out_file = "absent"
    /\ pdv_result = "pending"

InitChain == CallIdle /\ ChainIdle

SpecChain == InitChain /\ [][NextChain]_vars

(***************************************************************************)
(* Properties of the job chains, stated of SpecChain.                      *)
(***************************************************************************)
Ran(c, s) == jobs[c][s].status \in {"finished", "failed"}

NeverRan(c, s) == jobs[c][s].status \in {"none", "deferred"}

\* the files of a kind in downloads/ that stem from chain c
FilesOf(c, kind) ==
    {n \in 1..Len(downloads) : downloads[n].kind = kind /\ downloads[n].owner = c}

\* C15: when the selector's answer is not JSON, generate_short_subtitles
\* writes no .short.json and does not return: its job fails, and the
\* download and processing jobs of the chain never run.
C15_UnparsableAborts ==
    \A c \in Chains :
        answer[c] = "invalid" =>
            /\ FilesOf(c, "short_json") = {}
            /\ jobs[c][2].status = "failed"
            /\ NeverRan(c, 3)
            /\ NeverRan(c, 4)

\* C16: when download_subtitle, download_video or process_downloaded_video
\* produces no output, its job is marked failed and no later job of the
\* chain runs.
C16_NoOutputFailsChain ==
    \A c \in Chains :
        \A s \in {1, 3, 4} :
            jobs[c][s].output = "nothing" =>
                /\ jobs[c][s].status = "failed"
                /\ \A t \in Stages : t > s => NeverRan(c, t)

\* every stage before the processing stage of chain c produced its output
OwnInputsReady(c) == \A s \in 1..3 : jobs[c][s].output = "produced"

\* C18: with chains interleaved, the processing stage of a chain reads the
\* video and the .short.json its own chain produced, never another's.
C18_ReadsOwnArtifacts ==
    \A c \in Chains :
        (Ran(c, 4) /\ OwnInputsReady(c)) =>
            /\ picked[c].video = c
            /\ picked[c].json = c

(***************************************************************************)
(* Properties of the order of the encoder requests within a call.          *)
(***************************************************************************)
\* C21: nothing is retried: each segment's extraction is asked for at most
\* once, the merge stage at most once, and a request whose encoder failed
\* is followed by no request at all.
C21_NoRetry ==
    /\ \A r1, r2 \in ExtractReqs :
           requests[r1].out = requests[r2].out => r1 = r2
    /\ Cardinality(MergeReqs \cup CopyReqs) <= 1
    /\ \A r \in 1..Len(requests) : exits[r] # 0 => r = Len(requests)
    /\ Len(exits) = Len(requests)

\* C21: two clips extracted, the merge failed, and the run is over with
\* three requests.
C21_Witness ==
    /\ NumClips = 2
    /\ exits = <<0, 0, 1>>
    /\ pc = "Failed"
    /\ requests[3].op = "merge"

\* C25: the merge stage is a join barrier: its request is issued only after
\* the extraction of every segment has exited 0, and the clip list it reads
\* holds one entry per segment and is written no more.
C25_JoinBarrier ==
    /\ \A r \in MergeReqs \cup CopyReqs :
           /\ r = NumClips + 1
           /\ \A k \in 1..NumClips :
                  /\ requests[k].op = "extract"
                  /\ requests[k].out = k
                  /\ exits[k] = 0
           /\ InputsOf(requests[r]) = clip_names
    /\ pc \in {"Merging", "Done"} \/ MergeReqs \cup CopyReqs # {} =>
           clip_names = [k \in 1..NumClips |-> k]

\* C25: three extractions have exited 0 and the merge request is the fourth.
C25_Witness ==
    /\ NumClips = 3
    /\ Len(requests) = 4
    /\ requests[4].op = "merge"
    /\ SubSeq(exits, 1, 3) = <<0, 0, 0>>
    /\ clip_names = <<1, 2, 3>>

(***************************************************************************)
(* Properties of the transition graph of a merge request.                  *)
(***************************************************************************)
AllPositive == \A n \in 1..NumClips : ClipDur(n) > 0

\* C26: for N >= 2 clips of positive duration, trans_dur is positive, every
\* xfade offset is positive, and each offset exceeds the one before by more
\* than trans_dur.
C26_OffsetsIncrease ==
    \A r \in MergeReqs :
        AllPositive =>
            LET xs == Xfades(requests[r])
            IN  /\ Len(xs) = NumClips - 1
                /\ \A i \in 1..Len(xs) :
                       /\ xs[i].duration > 0
                       /\ xs[i].offset > 0
                       /\ i < Len(xs) =>
                              xs[i + 1].offset - xs[i].offset > xs[i].duration

\* C26: three clips of 1 s: trans_dur is 1/2.1 s, the offsets are 11/21 s
\* and 22/21 s.
C26_Witness ==
    \E r \in MergeReqs :
        /\ durations = <<1000, 1000, 1000>>
        /\ Xfades(requests[r])[1].duration = 10000
        /\ Xfades(requests[r])[1].offset = 11000
        /\ Xfades(requests[r])[2].offset = 22000

\* the positions of filter_complex whose stage writes label l
Makers(req, l) ==
    {p \in 1..Len(req.filter_complex) : req.filter_complex[p].out = l}

\* the inputs <<position, side>> of filter_complex that read label l
Readers(req, l) ==
    {ps \in (1..Len(req.filter_complex)) \X {1, 2} :
        (IF ps[2] = 1 THEN req.filter_complex[ps[1]].in1
         ELSE req.filter_complex[ps[1]].in2) = l}

\* C27: the graph of N >= 2 clips is well formed: each intermediate label
\* v_i / a_i (1 <= i <= N-2) is written by one stage and read once, by the
\* next stage of its kind; outv / outa are written once, by the last stage,
\* and read by no stage; each raw input 0..N-1 is read once on video and
\* once on audio; the labels mapped to the output are those of the last
\* stage.
C27_GraphWellFormed ==
    \A r \in MergeReqs :
        LET req == requests[r]
            fc == req.filter_complex
            last == Len(fc)
        IN  /\ NumClips >= 2
            /\ last = 2 * (NumClips - 1)
            /\ \A s \in {"v", "a"} :
                   /\ \A i \in 1..(NumClips - 2) :
                          \E p \in 1..(last - 2) :
                              /\ Makers(req, Mid(i, s)) = {p}
                              /\ \E side \in {1, 2} :
                                     Readers(req, Mid(i, s)) = {<<p + 2, side>>}
                              /\ fc[p + 2].f = fc[p].f
                   /\ Cardinality(Makers(req, Out(s))) = 1
                   /\ Makers(req, Out(s)) \subseteq {last - 1, last}
                   /\ Readers(req, Out(s)) = {}
                   /\ \A n \in 0..(NumClips - 1) :
                          /\ Cardinality(Readers(req, Raw(n, s))) = 1
                          /\ Makers(req, Raw(n, s)) = {}
            /\ \A p \in 1..last :
                   fc[p].out \in {Mid(i, s) : i \in 1..(NumClips - 2), s \in {"v", "a"}}
                                 \cup {Out("v"), Out("a")}
            /\ req.maps = <<fc[last - 1].out, fc[last].out>>
            /\ fc[last - 1].f = "xfade" /\ fc[last].f = "acrossfade"

\* C27: three clips: v1 is written by the first stage and read by the third,
\* which writes outv.
C27_Witness ==
    \E r \in MergeReqs :
        /\ NumClips = 3
        /\ Makers(requests[r], Mid(1, "v")) = {1}
        /\ Readers(requests[r], Mid(1, "v")) = {<<3, 1>>}
        /\ Makers(requests[r], Out("v")) = {3}
        /\ Makers(requests[r], Out("a")) = {4}

(***************************************************************************)
(* Properties of the input checks of cut_and_merge.                        *)
(***************************************************************************)
\* a call with a missing video, or with timestamps empty or not a list
BadCall == ~input_exists \/ ~ts_is_list \/ timestamps = <<>>

\* C30: a call with a missing input video, or with timestamps empty or not
\* a list, returns no result and changes nothing: no working directory, no
\* caption file, no encoder request.
C30_RejectLeavesNoTrace ==
    BadCall =>
        /\ pc \in {"Idle", "Failed"}
        /\ pc = "Failed" => result = "none"
        /\ result \in {"pending", "none"}
        /\ work_dir = FALSE
        /\ session_id = 0
        /\ ass = <<>>
        /\ clip_names = <<>>
        /\ requests = <<>>
        /\ out_file = "absent"
        /\ pdv_result \in {"pending", "none"}

\* C30: a call with an existing video and an empty list has returned None.
C30_Witness ==
    /\ input_exists
    /\ ts_is_list
    /\ timestamps = <<>>
    /\ pc = "Failed"
    /\ result = "none"

(***************************************************************************)
(* Properties of process_downloaded_video reading its segments, stated of  *)
(* SpecLoad.                                                               *)
(***************************************************************************)
\* the file holds a non-empty list of segments, bare or under "timestamps"
HoldsSegments ==
    data.shape \in {"list", "wrapped"} /\ data.is_list /\ data.value # <<>>

\* C23: a JSON array and an object holding the array under "timestamps"
\* pass the same segments to cut_and_merge; any other shape, and an empty
\* list, end the run with no encoder request and no path returned.
C23_ShapesAccepted ==
    /\ data # NoJson
    /\ HoldsSegments =>
           /\ loaded => (timestamps = data.value /\ ts_is_list)
           /\ pdv_result = "none" => pc \in {"Done", "Failed"}
           /\ requests # <<>> => requests[1].ss = data.value[1]["start_sec"]
    /\ ~HoldsSegments =>
           /\ requests = <<>>
           /\ work_dir = FALSE
           /\ pdv_result \in {"pending", "none"}
           /\ result \in {"pending", "none"}

\* C23: two segments wrapped under "timestamps" were cut, merged and
\* reported.
C23_Witness ==
    /\ data.shape = "wrapped"
    /\ Len(data.value) = 2
    /\ timestamps = data.value
    /\ Len(requests) = 3
    /\ pc = "Done"
    /\ pdv_result = "path"

\* the files of downloads/ named as path p
FilesAt(p) ==
    {n \in 1..Len(downloads) :
        /\ downloads[n].kind = p.kind
        /\ downloads[n].owner = p.owner
        /\ downloads[n].depth = p.depth}

\* C22: process_downloaded_video returns a path exactly when its run
\* succeeded; the path is that of its source with _processed added to the
\* stem, in the same directory and with the same suffix, and a completely
\* written file lies there.
C22_ProcessedPath ==
    \A c \in Chains :
        /\ result_path[c] # NoPath =>
               /\ result_path[c].kind = "mp4"
               /\ result_path[c].owner = picked[c].video
               /\ result_path[c].depth = picked[c].depth + 1
               /\ \E n \in FilesAt(result_path[c]) : downloads[n].content = "complete"
        /\ jobs[c][4].output = "produced" <=> result_path[c] # NoPath
        /\ jobs[c][4].output = "nothing" => result_path[c] = NoPath

\* C22: chain 2 processed its own download and returned its path, and
\* chain 1 then took that output as its source and returned the path with
\* _processed added once more.
C22_Witness ==
    /\ picked[2] = [video |-> 2, json |-> 2, depth |-> 0]
    /\ result_path[2] = [kind |-> "mp4", owner |-> 2, depth |-> 1]
    /\ picked[1].depth = 1
    /\ result_path[1] = [kind |-> "mp4", owner |-> 2, depth |-> 2]

\* the job of stage s of chain c has been handed to the worker's queue, or
\* has run
Started(c, s) == jobs[c][s].status \in {"queued", "finished", "failed"}

\* C24: in every chain the stages run in the order subtitle download,
\* segment selection, video download, processing and, for the bot,
\* Telegram delivery: a job is on the queue or has run only when the job
\* of the stage before it has finished, whatever the other chains do.
C24_StagesInOrder ==
    /\ \A c \in Chains : \A s \in Stages \ {1} :
           Started(c, s) => jobs[c][s - 1].status = "finished"
    /\ \A n \in 1..Len(queue) :
           /\ jobs[queue[n][1]][queue[n][2]].status = "queued"
           /\ \A t \in 1..(queue[n][2] - 1) :
                  jobs[queue[n][1]][t].status = "finished"

\* C24: the bot's chain has run its five stages to the end while the jobs
\* of another chain were interleaved with them.
C24_Witness ==
    /\ \A s \in Stages : jobs[1][s].status = "finished"
    /\ jobs[2][2].status = "finished"
    /\ jobs[2][3].status = "queued"
    /\ queue = <<<<2, 3>>>>

\* C28: the source a processing stage selects is a file a video-download
\* stage wrote, never a file a processing stage wrote as
\* <stem>_processed.mp4.
C28_SourceIsDownload ==
    \A c \in Chains : picked[c].video # 0 => picked[c].depth = 0

\* C29: what the Telegram delivery stage of a chain sends is the artifact
\* the processing stage of the same chain produced; when that stage
\* produced none, nothing is sent.
C29_SendsOwnArtifact ==
    \A c \in Chains :
        sent[c] # NoPath =>
            /\ result_path[c] # NoPath
            /\ sent[c].kind = result_path[c].kind
            /\ sent[c].owner = result_path[c].owner
            /\ sent[c].depth = result_path[c].depth

====
